---- MODULE Spec2Model ----
(***************************************************************************)
(* A model of parg's bluenoise generator (src/src/bluenoise.c): the        *)
(* context life cycle (create, density builders, generate, free) and the   *)
(* rank sorter.                                                            *)
(*                                                                         *)
(* Numbers.  The C code computes in float.  The model computes in exact    *)
(* rationals over integers:                                                *)
(*   - a coordinate c of the unit square is the integer c * Unit(S), where *)
(*     Unit(S) = K * S^MaxLevel, so that every tile origin and every       *)
(*     candidate of levels 0..MaxLevel is an integer;                      *)
(*   - mag, threshold, factor and rank are fractions [n, d]; d = 0 with    *)
(*     n > 0 is +infinity (powf(0, -2));                                   *)
(*   - a density cell is a numerator over CellScale.                       *)
(* Comparisons are cross-multiplied, and the float-to-int conversions of   *)
(* the code are truncations toward zero (Trunc).                           *)
(***************************************************************************)
EXTENDS Integers, Sequences, FiniteSets, TLC

\* ------------------------------------------------------------------ bounds
\* Half the number of grid steps per unit length of tileset coordinates.
Half == 2
\* Deepest level of the descent the model follows; a descent that would go
\* deeper ends the modelled call in phase "deep".
MaxLevel == 2
\* Densities passed to generate are 0..MaxDensity.
MaxDensity == 4
\* Longest points / subPoints list of a tile.
MaxPts == 2
\* Capacity (maxpts) given to create.
Capacity == 10
\* Most points of the root tile in the end-to-end scenario.
MaxScenario == 4
\* Most density grids built on one context.
MaxBuilds == 2
\* Most generate calls on one context.
MaxCalls == 2
\* Longest list given to sort_by_rank in SpecSort, and its largest rank.
MaxSortLen == 4
MaxRank == 2

K == 2 * Half

\* ----------------------------------------------------------------- helpers
RECURSIVE Pow(_, _)
Pow(b, e) == IF e = 0 THEN 1 ELSE b * Pow(b, e - 1)

\* (int) of the rational n/d, d > 0: truncation toward zero.
Trunc(n, d) == IF n >= 0 THEN n \div d ELSE -((-n) \div d)

\* #define clamp(x, min, max)
clamp(x, min, max) == IF x < min THEN min ELSE IF x > max THEN max ELSE x

\* #define maxi(a, b)
maxi(a, b) == IF a > b THEN a ELSE b

\* The denominator of a density cell: 1.0 is CellScale, 1 - p/255 is 255 - p.
CellScale == 255

\* Length of the unit square's side in the integers of a tileset with
\* nsubtiles = S.
Unit(S) == K * Pow(S, MaxLevel)

\* ---------------------------------------------------------------- tilesets
\* The absent density field (ctx->density = 0).
Null == <<>>

\* The j-th entry of a tile's points list and of its subPoints list, in grid
\* steps (1/K of the unit length); both lie in the unit square.
PointAt(j) == <<(1 + 2 * j) % (K + 1), (1 + 3 * j) % (K + 1)>>
SubAt(j) == <<(Half + 3 * j) % (K + 1), (Half + j) % (K + 1)>>

PointList(n) == [j \in 1..n |-> PointAt(j - 1)]
SubList(n) == [j \in 1..n |-> SubAt(j - 1)]

\* par_tile as par_bluenoise_create fills it: npoints and nsubpts are the
\* lengths of points and subpts; subdivs[v][k] is a tile index.
Tile(pts, subs, divs) ==
    [npoints |-> Len(pts), points |-> pts,
     nsubpts |-> Len(subs), subpts |-> subs,
     subdivs |-> divs]

\* A tileset: S subtiles per axis, one or two tiles, a points and b
\* subPoints of tile 0 (b points and a subPoints of tile 1).  With two tiles there are two
\* subdivision variants, and variant 1 differs from variant 0.
TileSet(S, nt, a, b) ==
    IF nt = 1
    THEN [nsubtiles |-> S, nsubdivs |-> 1,
          tiles |-> << Tile(PointList(a), SubList(b),
                            << [k \in 1..(S * S) |-> 0] >>) >>]
    ELSE [nsubtiles |-> S, nsubdivs |-> 2,
          tiles |-> << Tile(PointList(a), SubList(b),
                            << [k \in 1..(S * S) |-> k % 2],
                               [k \in 1..(S * S) |-> 0] >>),
                       Tile(SubList(b), PointList(a),
                            << [k \in 1..(S * S) |-> 1],
                               [k \in 1..(S * S) |-> 0] >>) >>]

\* The tilesets given to create in SpecGen.
TileSets ==
    { TileSet(S, nt, a, b) : S \in {1, 2}, nt \in {1, 2},
                             a \in 0..MaxPts, b \in 0..MaxPts }

\* ---------------------------------------------------------- the tileset file
\* The file is a sequence of four-byte words, an int or a float each; a
\* coordinate is written in grid steps.  Encode is the file of a tileset, as
\* par_bluenoise_create reads it back: the header, then for every tile its
\* four neighbour ids, its subdivision variants, its points and its
\* subPoints, each list after its count.
RECURSIVE EncodePairs(_)
EncodePairs(pts) ==
    IF pts = <<>> THEN <<>>
    ELSE <<pts[1][1], pts[1][2]>> \o EncodePairs(Tail(pts))

RECURSIVE EncodeLists(_)
EncodeLists(lists) ==
    IF lists = <<>> THEN <<>> ELSE lists[1] \o EncodeLists(Tail(lists))

EncodeTile(t) ==
    <<0, 0, 0, 0>> \o EncodeLists(t.subdivs)
    \o <<t.npoints>> \o EncodePairs(t.points)
    \o <<t.nsubpts>> \o EncodePairs(t.subpts)

Encode(ts) ==
    <<Len(ts.tiles), ts.nsubtiles, ts.nsubdivs>>
    \o EncodeLists([t \in 1..Len(ts.tiles) |-> EncodeTile(ts.tiles[t])])

\* freadi() / freadf() at word pos of the buffer.  A word past the end of
\* the buffer has no known value: 0 stands for it, and Parse reports that
\* the read left the buffer.
Word(buf, pos) == IF pos <= Len(buf) THEN buf[pos] ELSE 0

ReadInts(buf, pos, n) == [k \in 1..n |-> Word(buf, pos + k - 1)]

ReadPairs(buf, pos, n) ==
    [k \in 1..n |-> <<Word(buf, pos + 2 * (k - 1)),
                      Word(buf, pos + 2 * (k - 1) + 1)>>]

\* The body of the loop over tiles (lines 295-318) for the tile that
\* starts at word pos: the tile, and the position after it.
ReadTile(buf, pos, S, V) ==
    LET divs == [v \in 1..V |-> ReadInts(buf, pos + 4 + (v - 1) * S * S,
                                         S * S)]
        p2 == pos + 4 + V * S * S
        np == Word(buf, p2)
        p3 == p2 + 1 + 2 * np
        ns == Word(buf, p3)
    IN  [tile |-> Tile(ReadPairs(buf, p2 + 1, np), ReadPairs(buf, p3 + 1, ns),
                       divs),
         next |-> p3 + 1 + 2 * ns]

RECURSIVE ReadTiles(_, _, _, _, _)
ReadTiles(buf, pos, S, V, n) ==
    IF n <= 0
    THEN [tiles |-> <<>>, next |-> pos]
    ELSE LET first == ReadTile(buf, pos, S, V)
             rest == ReadTiles(buf, first.next, S, V, n - 1)
         IN  [tiles |-> <<first.tile>> \o rest.tiles, next |-> rest.next]

\* Lines 289-319: the tileset read from buf, the number of words read, and
\* whether a read was past the end of buf.
Parse(buf) ==
    LET S == Word(buf, 2)
        V == Word(buf, 3)
        all == ReadTiles(buf, 4, S, V, Word(buf, 1))
    IN  [ts |-> [nsubtiles |-> S, nsubdivs |-> V, tiles |-> all.tiles],
         words |-> all.next - 1,
         overrun |-> all.next - 1 > Len(buf)]

\* ------------------------------------------------------------ sample_density
\* The cell indices sample_density computes for the point (x, y).
SampleIndex(ctx, x, y) ==
    LET width == ctx.density_width
        height == ctx.density_height
        U == Unit(ctx.nsubtiles)
        y1 == (U - y) - (U \div 2)
        x1 == x - (U \div 2)
        m == maxi(width, height)
        \* tx = x * maxi(width, height) + width / 2, as a numerator over U
        tx == x1 * m + (width \div 2) * U
        ty == y1 * m + (height \div 2) * U
    IN  [ix |-> clamp(Trunc(tx, U), 0, width - 2),
         iy |-> clamp(Trunc(ty, U), 0, height - 2)]

sample_density(ctx, x, y) ==
    IF ctx.density = Null
    THEN CellScale
    ELSE LET c == SampleIndex(ctx, x, y)
         IN  ctx.density[c.iy * ctx.density_width + c.ix + 1]

\* ----------------------------------------------------------------- emission
\* ctx->points[ctx->npoints] = p; ctx->npoints++.  A write at an index that
\* is not below maxpoints lands outside the buffer: oob records it.  The
\* model also records who wrote each entry: stamps[i] is <<c, k>> when the
\* entry was the k-th one written by the c-th generate call.
\* Mutant of Emit: a point that finds the buffer full is dropped.
Emit_Truncating(ctx, p) ==
    IF ctx.npoints < ctx.maxpoints
    THEN [ctx EXCEPT !.points[ctx.npoints + 1] = p,
                     !.stamps[ctx.npoints + 1] = <<ctx.callno, ctx.emitted + 1>>,
                     !.emitted = ctx.emitted + 1,
                     !.npoints = ctx.npoints + 1]
    ELSE ctx

Emit(ctx, p) ==
    IF ctx.npoints < ctx.maxpoints
    THEN [ctx EXCEPT !.points[ctx.npoints + 1] = p,
                     !.stamps[ctx.npoints + 1] = <<ctx.callno, ctx.emitted + 1>>,
                     !.emitted = ctx.emitted + 1,
                     !.npoints = ctx.npoints + 1]
    ELSE [ctx EXCEPT !.npoints = ctx.npoints + 1,
                     !.emitted = ctx.emitted + 1,
                     !.oob = TRUE]

\* Mutant of OutsideViewport: the test against top is missing.
OutsideViewport_NoTop(ctx, px, py) ==
    px < ctx.left \/ px > ctx.right \/ py < ctx.bottom

\* px < left || px > right || py < bottom || py > top
OutsideViewport(ctx, px, py) ==
    px < ctx.left \/ px > ctx.right \/ py < ctx.bottom \/ py > ctx.top

\* Mutants of BelowDensity: the comparison the other way round, and <= for <.
BelowDensity_Flipped(ctx, px, py, k, f) ==
    sample_density(ctx, px, py) * f.d > k * f.n * CellScale

BelowDensity_OrEqual(ctx, px, py, k, f) ==
    sample_density(ctx, px, py) * f.d <= k * f.n * CellScale

\* sample_density(ctx, px, py) < k * factor, for factor = f.n / f.d, f.d > 0
BelowDensity(ctx, px, py, k, f) ==
    sample_density(ctx, px, py) * f.d < k * f.n * CellScale

\* Mutant of MinTests: the threshold is not looked at.
MinTests_CountOnly(count, t) == count

\* (int) mini(count, t) for the fraction t = t.n / t.d (t.d = 0: +infinity)
MinTests(count, t) ==
    IF t.d = 0 \/ count * t.d < t.n THEN count ELSE Trunc(t.n, t.d)

\* --------------------------------------------------------------- apply_tile
\* Mutant of SubRank: the level is not added.
SubRank_NoLevel(level, f, i) == [n |-> i * f.n, d |-> f.d]

\* rank = (level + 1) + i * factor (line 185)
SubRank(level, f, i) == [n |-> (level + 1) * f.d + i * f.n, d |-> f.d]

\* The candidate loop of apply_tile, from index i on: candidate i of the tile
\* at origin (x, y), with factor f and ntests candidates to test.
RECURSIVE SubPointLoop(_, _, _, _, _, _, _, _)
SubPointLoop(ctx, tile, x, y, level, f, i, ntests) ==
    IF i >= ntests
    THEN ctx
    ELSE LET step == Unit(ctx.nsubtiles) \div (K * Pow(ctx.nsubtiles, level))
             px == x + tile.subpts[i + 1][1] * step
             py == y + tile.subpts[i + 1][2] * step
             half == Unit(ctx.nsubtiles) \div 2
             next ==
                 IF OutsideViewport(ctx, px, py)
                 THEN ctx
                 ELSE IF BelowDensity(ctx, px, py, i + tile.npoints, f)
                 THEN ctx
                 ELSE Emit(ctx, [x |-> px - half, y |-> py - half,
                                 rank |-> SubRank(level, f, i)])
         \* (next is computed once: c is its value)
         IN  CHOOSE r \in { SubPointLoop(c, tile, x, y, level, f, i + 1,
                                          ntests) : c \in {next} } : TRUE

\* threshold = mag / depth * global_density - tile->npoints
Threshold(ctx, tile, level) ==
    LET depth == Pow(ctx.nsubtiles, 2 * level)
    IN  [n |-> ctx.mag.n * ctx.global_density
                 - tile.npoints * depth * ctx.mag.d,
         d |-> depth * ctx.mag.d]

\* if (threshold <= tile->nsubpts) return; this is its negation
Spawns(ctx, tile, level) ==
    LET t == Threshold(ctx, tile, level)
    IN  t.d = 0 \/ t.n > tile.nsubpts * t.d

\* x + tileSize < left || x > right || y + tileSize < bottom || y > top
Disjoint(ctx, x, y, tileSize) ==
    \/ x + tileSize < ctx.left
    \/ x > ctx.right
    \/ y + tileSize < ctx.bottom
    \/ y > ctx.top

\* apply_tile on the node (tile index, x, y, level), and the loop over its
\* children from child k on.  A node of level MaxLevel that spawns children
\* sets deep: the descent leaves the levels the model follows.
RECURSIVE apply_tile(_, _, _, _, _)
RECURSIVE ChildLoop(_, _, _, _, _, _)
apply_tile(ctx, tileIndex, x, y, level) ==
    LET tile == ctx.tiles[tileIndex + 1]
        S == ctx.nsubtiles
        tileSize == Unit(S) \div Pow(S, level)
        depth == Pow(S, 2 * level)
        ntests == MinTests(tile.nsubpts, Threshold(ctx, tile, level))
        factor == [n |-> ctx.mag.d * depth,
                   d |-> ctx.mag.n * ctx.global_density]
        after == SubPointLoop(ctx, tile, x, y, level, factor, 0, ntests)
    IN  IF ctx.deep \/ Disjoint(ctx, x, y, tileSize)
        THEN ctx
        ELSE IF ~Spawns(ctx, tile, level)
        THEN after
        ELSE IF level >= MaxLevel
        THEN [after EXCEPT !.deep = TRUE]
        ELSE ChildLoop(after, tile, x, y, level + 1, 0)

ChildLoop(ctx, tile, x, y, level, k) ==
    LET S == ctx.nsubtiles
        scale == Unit(S) \div Pow(S, level)
        tx == k % S
        ty == k \div S
    IN  IF k >= S * S
        THEN ctx
        ELSE ChildLoop(
                 apply_tile(ctx, tile.subdivs[1][ty * S + tx + 1],
                            x + tx * scale, y + ty * scale, level),
                 tile, x, y, level, k + 1)

\* ---------------------------------------------------- par_bluenoise_generate
\* The root pass, from index i on.
RECURSIVE RootLoop(_, _, _, _)
RootLoop(ctx, f, i, ntests) ==
    IF i >= ntests
    THEN ctx
    ELSE LET fine == Unit(ctx.nsubtiles) \div K
             px == ctx.tiles[1].points[i + 1][1] * fine
             py == ctx.tiles[1].points[i + 1][2] * fine
             half == Unit(ctx.nsubtiles) \div 2
             next ==
                 IF OutsideViewport(ctx, px, py)
                 THEN ctx
                 ELSE IF BelowDensity(ctx, px, py, i + 1, f)
                 THEN ctx
                 ELSE Emit(ctx, [x |-> px - half, y |-> py - half,
                                 rank |-> [n |-> i * f.n, d |-> f.d]])
         IN  CHOOSE r \in { RootLoop(c, f, i + 1, ntests) : c \in {next} } :
                 TRUE

\* Mutants of SetViewport: mag is computed by the first call only, and
\* npoints is not reset.
SetViewport_StaleMag(ctx, density, left, bottom, right, top) ==
    LET fine == Unit(ctx.nsubtiles) \div K
        U == Unit(ctx.nsubtiles)
    IN  [ctx EXCEPT
           !.global_density = density,
           !.npoints = 0,
           !.callno = ctx.callno + 1,
           !.emitted = 0,
           !.mag = IF ctx.callno = 0
                   THEN [n |-> K * K, d |-> (top - bottom) * (top - bottom)]
                   ELSE ctx.mag,
           !.left = clamp((left + Half) * fine, 0, U),
           !.right = clamp((right + Half) * fine, 0, U),
           !.bottom = clamp((bottom + Half) * fine, 0, U),
           !.top = clamp((top + Half) * fine, 0, U)]

SetViewport_NoReset(ctx, density, left, bottom, right, top) ==
    LET fine == Unit(ctx.nsubtiles) \div K
        U == Unit(ctx.nsubtiles)
    IN  [ctx EXCEPT
           !.global_density = density,
           !.callno = ctx.callno + 1,
           !.emitted = 0,
           !.mag = [n |-> K * K, d |-> (top - bottom) * (top - bottom)],
           !.left = clamp((left + Half) * fine, 0, U),
           !.right = clamp((right + Half) * fine, 0, U),
           !.bottom = clamp((bottom + Half) * fine, 0, U),
           !.top = clamp((top + Half) * fine, 0, U)]

\* The fields generate sets before the root pass.  left, bottom, right, top
\* arrive in grid steps, in the caller's [-0.5, +0.5] coordinates.  callno
\* and emitted are the model's count of calls and of this call's writes.
SetViewport(ctx, density, left, bottom, right, top) ==
    LET fine == Unit(ctx.nsubtiles) \div K
        U == Unit(ctx.nsubtiles)
    IN  [ctx EXCEPT
           !.global_density = density,
           !.npoints = 0,
           !.callno = ctx.callno + 1,
           !.emitted = 0,
           !.mag = [n |-> K * K, d |-> (top - bottom) * (top - bottom)],
           !.left = clamp((left + Half) * fine, 0, U),
           !.right = clamp((right + Half) * fine, 0, U),
           !.bottom = clamp((bottom + Half) * fine, 0, U),
           !.top = clamp((top + Half) * fine, 0, U)]

par_bluenoise_generate(ctx, density, left, bottom, right, top) ==
    LET c0 == SetViewport(ctx, density, left, bottom, right, top)
        ntests == MinTests(c0.tiles[1].npoints,
                           [n |-> c0.mag.n * density, d |-> c0.mag.d])
        factor == [n |-> c0.mag.d, d |-> c0.mag.n * density]
        c1 == RootLoop(c0, factor, 0, ntests)
    IN  apply_tile(c1, 0, 0, 0, 0)

\* ------------------------------------------------------------ rank sorting
\* Mutant of cmp: the two results -1 and 1 exchanged.
cmp_Descending(v1, v2) ==
    IF v1.rank.n * v2.rank.d < v2.rank.n * v1.rank.d THEN 1
    ELSE IF v1.rank.n * v2.rank.d > v2.rank.n * v1.rank.d THEN -1
    ELSE 0

\* cmp: -1, 0 or 1 by the rank fields of two entries (ranks are fractions
\* with positive denominators).
cmp(v1, v2) ==
    IF v1.rank.n * v2.rank.d < v2.rank.n * v1.rank.d THEN -1
    ELSE IF v1.rank.n * v2.rank.d > v2.rank.n * v1.rank.d THEN 1
    ELSE 0

\* The orders qsort may leave the first npts entries in: every arrangement
\* p of the indices with cmp(entry p[i], entry p[j]) <= 0 for i < j.  The
\* order of entries that compare equal is not specified, so each is possible.
QsortOrders(vecs, npts) ==
    { p \in Permutations(1..npts) :
        \A i \in 1..npts : \A j \in 1..npts :
            i < j => cmp(vecs[p[i]], vecs[p[j]]) <= 0 }

\* Mutant of par_bluenoise_sort_by_rank: the rank written is i + 1.
par_bluenoise_sort_by_rank_OneBased(vecs, npts, p) ==
    [i \in 1..Len(vecs) |->
        IF i <= npts
        THEN [vecs[p[i]] EXCEPT !.rank = [n |-> i, d |-> 1]]
        ELSE vecs[i]]

\* par_bluenoise_sort_by_rank with qsort's order p: the first npts entries
\* are rearranged, then vecs[i].rank = i; entries from npts on are untouched.
par_bluenoise_sort_by_rank(vecs, npts, p) ==
    [i \in 1..Len(vecs) |->
        IF i <= npts
        THEN [vecs[p[i]] EXCEPT !.rank = [n |-> i - 1, d |-> 1]]
        ELSE vecs[i]]

\* ------------------------------------------------------------ density grids
\* The images given to the density builders: width, height, bytes per pixel
\* (the stride) and width * height * bpp bytes.
Image3x2 ==
    [width |-> 3, height |-> 2, bpp |-> 1,
     pixels |-> <<0, 255, 128, 255, 0, 0>>]

Image3x3 ==
    [width |-> 3, height |-> 3, bpp |-> 2,
     pixels |-> <<255, 0, 0, 0, 255, 0, 0, 0, 255, 0, 0, 0, 0, 0, 255, 0,
                  0, 0>>]

Images == {Image3x2, Image3x3}

\* An image of five bytes per pixel.
Image2x2 ==
    [width |-> 2, height |-> 2, bpp |-> 5,
     pixels |-> <<0, 0, 0, 0, 9, 1, 0, 0, 0, 9, 0, 0, 0, 0, 9, 0, 0, 0, 1,
                  9>>]

WideImages == {Image2x2}

\* *dst++ = 1 - (*pixels) * scale, for each pixel in row order
GrayGrid(img) ==
    [p \in 1..(img.width * img.height) |->
        CellScale - img.pixels[(p - 1) * img.bpp + 1]]

\* An unsigned int is modelled as its four bytes, lowest first.
WordBytes(n) ==
    << n % 256, (n \div 256) % 256, (n \div 65536) % 256,
       (n \div 16777216) % 256 >>

\* mask: byte j of it is 0xff if j = 0 or bpp > j, for j = 0..3
MaskByte(bpp, j) == IF j = 0 \/ bpp > j THEN 255 ELSE 0

\* (*((unsigned int*) pixels)) & mask on a little-endian host, for pixels
\* advanced by off bytes.  The read takes the four bytes at off .. off + 3
\* whatever bpp is; a byte past the end of the caller's buffer has no known
\* value (0 stands for it: the mask removes every such byte when the pixel's
\* own bpp bytes are inside the buffer).
MaskedWordAt(pixels, off, bpp) ==
    [j \in 1..4 |->
        IF MaskByte(bpp, j - 1) = 0 THEN 0
        ELSE IF off + j <= Len(pixels) THEN pixels[off + j]
        ELSE 0]

\* The offsets, from the start of the caller's pixels, of the bytes the loop
\* of density_from_color reads: four bytes at every pixel.
ColorReads(img) ==
    UNION { { (p - 1) * img.bpp + j : j \in 0..3 } :
              p \in 1..(img.width * img.height) }

ColorGrid(img, bkgd, invert) ==
    [p \in 1..(img.width * img.height) |->
        LET val == MaskedWordAt(img.pixels, (p - 1) * img.bpp, img.bpp)
        IN  IF invert
            THEN (IF val = WordBytes(bkgd) THEN CellScale ELSE 0)
            ELSE (IF val # WordBytes(bkgd) THEN CellScale ELSE 0)]

\* -------------------------------------------------------------------- state
VARIABLES
    phase,     \* "none", "live", "deep" (generate left the modelled levels),
               \* "corrupt" (generate wrote outside the buffer), "freed";
               \* "sort" and "sorted" in SpecSort
    tileset,   \* the tileset the caller gives to create
    ctx,       \* par_bluenoise_context
    heap,      \* the blocks malloc returned and free has not yet taken
    released,  \* the blocks par_bluenoise_free passed to free, in order
    builds,    \* how many density grids have been built
    calls,     \* how many generate calls have been made
    last,      \* the name of the last call
    call,      \* the last generate call: its arguments and what it returned
    prev,      \* the generate call before that one
    before,    \* the entries sort_by_rank was given, as they were before it
    vecs,      \* the caller's array in SpecSort
    report,    \* what the last create or density_from_color call was given
               \* and did: how it ended, the bytes it read
    descent    \* the generate call in progress in SpecDescent: the nodes
               \* of apply_tile's recursion, and a record of the visits

vars == <<phase, tileset, ctx, heap, released, builds, calls, last, call,
          prev, before, vecs, report, descent>>

\* No generate call in progress, none observed.
NoDescent ==
    [density |-> 0, vp |-> <<0, 0, 0, 0>>, stack |-> <<>>, allocated |-> 0,
     freed |-> 0, trace |-> <<>>]

\* No create or density_from_color call yet.
NoReport == [outcome |-> "none"]

\* What malloc leaves in a points entry; the code writes an entry before it
\* is read.
Junk == [x |-> 0, y |-> 0, rank |-> [n |-> -1, d |-> 1]]

\* No generate call yet.  Of a call made: its arguments, the count it stored
\* in *npts, the block its returned pointer points into, the entries
\* [0, npts) as it left them, and the number of grids built before it.
NoCall == [made |-> FALSE, density |-> 0, vp |-> <<0, 0, 0, 0>>, npts |-> 0,
           ret |-> <<>>, pts |-> <<>>, grids |-> 0]

\* Heap blocks are <<kind, tile, index>>.
Block(kind) == <<kind, 0, 0>>

TileBlocks(ts, t) ==
    {<<"subdivs", t, 0>>, <<"tile_points", t, 0>>, <<"tile_subpts", t, 0>>}
    \cup {<<"subdiv", t, v>> : v \in 1..ts.nsubdivs}

\* The viewports given to generate, <<left, bottom, right, top>> in grid
\* steps of the caller's [-0.5, +0.5] coordinates.
Viewports ==
    { <<-Half, -Half, Half, Half>>,              \* the whole square
      <<-Half - 1, -Half - 1, Half + 1, Half + 1>>,  \* larger than the square
      <<-Half, -Half, 0, 0>>,                    \* a quadrant
      <<0, -Half, Half, Half>>,                  \* the right half
      <<0, 0, 1, 1>>,                            \* one grid step
      <<0, -Half, 0, Half>>,                     \* left = right
      <<-Half, 0, Half, 0>>,                     \* bottom = top
      <<Half, Half, -Half, -Half>> }             \* right < left, top < bottom

Densities == 0..MaxDensity

\* ------------------------------------------------------------------ actions
\* The context par_bluenoise_create returns for a well-formed tileset held
\* in memory, and the blocks it has allocated.  deep and oob are the model's
\* record of a call that left the modelled levels or the buffer;
\* points_block and density_block name the blocks ctx->points and
\* ctx->density point to; stamps, callno and emitted are explained at Emit.
CreateCtx(ts, maxpts) ==
    [points |-> [i \in 1..maxpts |-> Junk],
     tiles |-> ts.tiles,
     global_density |-> 0,
     left |-> 0, bottom |-> 0, right |-> 0, top |-> 0,
     ntiles |-> Len(ts.tiles),
     nsubtiles |-> ts.nsubtiles,
     nsubdivs |-> ts.nsubdivs,
     npoints |-> 0,
     maxpoints |-> maxpts,
     density_width |-> 0,
     density_height |-> 0,
     density |-> Null,
     density_block |-> Null,
     points_block |-> Block("points"),
     stamps |-> [i \in 1..maxpts |-> <<0, 0>>],
     callno |-> 0,
     emitted |-> 0,
     mag |-> [n |-> 0, d |-> 1],
     deep |-> FALSE,
     oob |-> FALSE]

CreateBlocks(ts) ==
    {Block("ctx"), Block("points"), Block("tiles")}
    \cup UNION {TileBlocks(ts, t) : t \in 1..Len(ts.tiles)}

Create(ts, maxpts) ==
    /\ phase = "none"
    /\ phase' = "live"
    /\ ctx' = CreateCtx(ts, maxpts)
    /\ heap' = CreateBlocks(ts)
    /\ last' = "create"
    /\ UNCHANGED <<tileset, released, builds, calls, call, prev, before,
                   vecs, report, descent>>

\* par_bluenoise_create with nbytes = 0: the tileset is read from the file
\* at filepath, whose content is words.  fopen succeeds or not (opens);
\* fread stores the first delivered words of the file in the malloc'd
\* buffer and its result is not looked at, so the rest of the buffer keeps
\* what malloc left there (rest, any words).  Parsing then goes on as for a
\* caller's buffer.  Without a file, assert(fin) aborts the process, and a
\* build with NDEBUG passes the null FILE* to fseek.
CreateFromFile(words, opens, delivered, rest, maxpts) ==
    /\ phase = "none"
    /\ last' = "create"
    /\ IF ~opens
       THEN /\ phase' = "aborted"
            /\ ctx' = ctx
            /\ heap' = {Block("ctx"), Block("points")}
            /\ \E how \in {"abort", "undefined"} :
                   report' = [outcome |-> how, opened |-> FALSE,
                              length |-> Len(words), delivered |-> 0,
                              parsed |-> 0]
       ELSE \E got \in {Parse(SubSeq(words, 1, delivered) \o rest)} :
                IF got.overrun
                THEN /\ phase' = "aborted"
                     /\ ctx' = ctx
                     /\ heap' = {Block("ctx"), Block("points"),
                                 Block("buf")}
                     /\ report' = [outcome |-> "undefined", opened |-> TRUE,
                                   length |-> Len(words),
                                   delivered |-> delivered,
                                   parsed |-> got.words]
                ELSE /\ phase' = "live"
                     /\ ctx' = CreateCtx(got.ts, maxpts)
                     /\ heap' = CreateBlocks(got.ts)
                     /\ report' = [outcome |-> "returned", opened |-> TRUE,
                                   length |-> Len(words),
                                   delivered |-> delivered,
                                   parsed |-> got.words]
    /\ UNCHANGED <<tileset, released, builds, calls, call, prev, before,
                   vecs, descent>>

\* The malloc of both density builders: a new block; the pointer to the
\* grid built before, if any, is overwritten.
NewGrid(c, img, grid, block) ==
    [c EXCEPT !.density_width = img.width,
              !.density_height = img.height,
              !.density = grid,
              !.density_block = block]

DensityFromGray(img) ==
    /\ phase = "live"
    /\ builds < MaxBuilds
    /\ ctx' = NewGrid(ctx, img, GrayGrid(img), <<"density", builds, 0>>)
    /\ heap' = heap \cup {<<"density", builds, 0>>}
    /\ builds' = builds + 1
    /\ last' = "density_from_gray"
    /\ UNCHANGED <<phase, tileset, released, calls, call, prev, before,
                   vecs, report, descent>>

DensityFromColor(img, bkgd, invert) ==
    /\ phase = "live"
    /\ builds < MaxBuilds
    /\ heap' = heap \cup {<<"density", builds, 0>>}
    /\ builds' = builds + 1
    /\ last' = "density_from_color"
    /\ \/ \* assert(bpp <= 4) fails: the process is aborted after the fields
          \* and the new block were set, before the grid is filled
          /\ img.bpp > 4
          /\ phase' = "aborted"
          /\ ctx' = NewGrid(ctx, img,
                            [p \in 1..(img.width * img.height) |-> -1],
                            <<"density", builds, 0>>)
          /\ report' = [outcome |-> "abort", bpp |-> img.bpp, reads |-> {},
                        size |-> Len(img.pixels)]
       \/ \* the assertion holds, or the build has NDEBUG: the loop runs and
          \* the function returns (it returns void)
          /\ phase' = phase
          /\ ctx' = NewGrid(ctx, img, ColorGrid(img, bkgd, invert),
                            <<"density", builds, 0>>)
          /\ report' = [outcome |-> "returned", bpp |-> img.bpp,
                        reads |-> ColorReads(img), size |-> Len(img.pixels),
                        pixels |-> img.pixels, bkgd |-> bkgd,
                        invert |-> invert]
    /\ UNCHANGED <<tileset, released, calls, call, prev, before, vecs,
                   descent>>

\* The entries [0, npoints) of the buffer (those of them inside it).
Written(c) ==
    SubSeq(c.points, 1,
           IF c.npoints < c.maxpoints THEN c.npoints ELSE c.maxpoints)

\* par_bluenoise_generate.  density = 0 with bottom = top is left out: there
\* mag * density is NaN and its conversion to int is undefined.
Generate(density, vp) ==
    /\ phase = "live"
    /\ calls < MaxCalls
    /\ calls' = calls + 1
    /\ ~(density = 0 /\ vp[2] = vp[4])
    /\ \E c \in {par_bluenoise_generate(ctx, density,
                                        vp[1], vp[2], vp[3], vp[4])} :
           /\ ctx' = c
           /\ phase' = IF c.deep THEN "deep"
                       ELSE IF c.oob THEN "corrupt"
                       ELSE "live"
           /\ call' = [made |-> TRUE, density |-> density, vp |-> vp,
                       npts |-> c.npoints, ret |-> c.points_block,
                       pts |-> Written(c),
                       grids |-> builds]
    /\ prev' = call
    /\ last' = "generate"
    /\ UNCHANGED <<tileset, heap, released, builds, before, vecs, report, descent>>

\* ---------------------------------------------- generate, node by node
\* The same call with apply_tile's recursion unfolded: one step per
\* apply_tile call.  stack[j] is the list of nodes the while loop of depth
\* j has still to process (line 207), its head being the node whose
\* apply_tile call is running or next to run; the root node is the only
\* node of stack[1].  id is the model's name of a node: the child indices
\* on the way to it from the root.
RootNode == [id |-> <<>>, tile |-> 0, x |-> 0, y |-> 0, level |-> 0]

\* Lines 218-251: the fields, then the root pass.
RootPass(c, density, left, bottom, right, top) ==
    LET c0 == SetViewport(c, density, left, bottom, right, top)
        ntests == MinTests(c0.tiles[1].npoints,
                           [n |-> c0.mag.n * density, d |-> c0.mag.d])
        factor == [n |-> c0.mag.d, d |-> c0.mag.n * density]
    IN  RootLoop(c0, factor, 0, ntests)

\* Line 167 for node.
Skipped(c, node) ==
    Disjoint(c, node.x, node.y,
             Unit(c.nsubtiles) \div Pow(c.nsubtiles, node.level))

\* Lines 170-187 for node: the context after its candidate loop.
Candidates(c, node) ==
    LET tile == c.tiles[node.tile + 1]
        depth == Pow(c.nsubtiles, 2 * node.level)
        ntests == MinTests(tile.nsubpts, Threshold(c, tile, node.level))
        factor == [n |-> c.mag.d * depth, d |-> c.mag.n * c.global_density]
    IN  SubPointLoop(c, tile, node.x, node.y, node.level, factor, 0, ntests)

\* Mutants of Children: the loops over tx and ty exchanged, and the
\* subdivision variant 1 (when there is one) for variant 0.
Children_ColumnMajor(c, node) ==
    LET S == c.nsubtiles
        scale == Unit(S) \div Pow(S, node.level + 1)
    IN  [k \in 1..(S * S) |->
            LET tx == (k - 1) \div S
                ty == (k - 1) % S
            IN  [id |-> Append(node.id, k - 1),
                 tile |-> c.tiles[node.tile + 1].subdivs[1][ty * S + tx + 1],
                 x |-> node.x + tx * scale,
                 y |-> node.y + ty * scale,
                 level |-> node.level + 1]]

\* Lines 192-205: the children of node, in the order of the list built.
Children(c, node) ==
    LET S == c.nsubtiles
        scale == Unit(S) \div Pow(S, node.level + 1)
    IN  [k \in 1..(S * S) |->
            LET tx == (k - 1) % S
                ty == (k - 1) \div S
            IN  [id |-> Append(node.id, k - 1),
                 tile |-> c.tiles[node.tile + 1].subdivs[1][ty * S + tx + 1],
                 x |-> node.x + tx * scale,
                 y |-> node.y + ty * scale,
                 level |-> node.level + 1]]

\* Mutant of FreedBy: the last child of a list is not freed.
FreedBy_NotLast(node) ==
    IF node.id = <<>> \/ node.id[Len(node.id)] = 3 THEN 0 ELSE 1

\* free(node) in the loop of lines 207-212; the root node is a local
\* variable of generate and is not freed.
FreedBy(node) == IF node.id = <<>> THEN 0 ELSE 1

\* Lines 218-254: generate up to its call of apply_tile on the root node.
Begin(density, vp) ==
    /\ phase = "live"
    /\ calls = 0
    /\ ~(density = 0 /\ vp[2] = vp[4])
    /\ phase' = "descending"
    /\ calls' = calls + 1
    /\ ctx' = RootPass(ctx, density, vp[1], vp[2], vp[3], vp[4])
    /\ descent' = [density |-> density, vp |-> vp,
                   stack |-> << <<RootNode>> >>,
                   allocated |-> 0, freed |-> 0, trace |-> <<>>]
    /\ last' = "begin"
    /\ UNCHANGED <<tileset, heap, released, builds, call, prev, before, vecs,
                   report>>

\* One apply_tile call, on the head of the innermost list, up to its
\* return (lines 168, 190) or to its first recursive call (line 208).  A
\* call that returns is followed by free(node) in the caller's loop.
ApplyTile ==
    /\ phase = "descending"
    /\ descent.stack # <<>>
    /\ descent.stack[Len(descent.stack)] # <<>>
    /\ LET depthNow == Len(descent.stack)
           node == Head(descent.stack[depthNow])
           tile == ctx.tiles[node.tile + 1]
           skipped == Skipped(ctx, node)
           after == IF skipped THEN ctx ELSE Candidates(ctx, node)
           spawned == ~skipped /\ Spawns(ctx, tile, node.level)
           visit == [id |-> node.id, tile |-> node.tile, x |-> node.x,
                     y |-> node.y, level |-> node.level,
                     skipped |-> skipped, spawned |-> spawned,
                     first |-> ctx.npoints, count |-> after.npoints]
       IN  IF spawned /\ node.level >= MaxLevel
           THEN /\ phase' = "deep"
                /\ ctx' = [after EXCEPT !.deep = TRUE]
                /\ descent' = [descent EXCEPT
                                  !.trace = Append(descent.trace, visit)]
           ELSE IF spawned
           THEN /\ phase' = phase
                /\ ctx' = after
                /\ descent' = [descent EXCEPT
                       !.stack = Append(descent.stack, Children(ctx, node)),
                       !.allocated = descent.allocated
                                       + ctx.nsubtiles * ctx.nsubtiles,
                       !.trace = Append(descent.trace, visit)]
           ELSE /\ phase' = phase
                /\ ctx' = after
                /\ descent' = [descent EXCEPT
                       !.stack[depthNow] = Tail(descent.stack[depthNow]),
                       !.freed = descent.freed + FreedBy(node),
                       !.trace = Append(descent.trace, visit)]
    /\ last' = "apply_tile"
    /\ UNCHANGED <<tileset, heap, released, builds, calls, call, prev, before,
                   vecs, report>>

\* The loop of lines 207-212 has no node left: the apply_tile call that ran
\* it returns, and its caller's loop frees that call's node.
Unwind ==
    /\ phase = "descending"
    /\ Len(descent.stack) > 1
    /\ descent.stack[Len(descent.stack)] = <<>>
    /\ LET outer == Len(descent.stack) - 1
           node == Head(descent.stack[outer])
       IN  descent' = [descent EXCEPT
               !.stack = [SubSeq(descent.stack, 1, outer) EXCEPT
                             ![outer] = Tail(descent.stack[outer])],
               !.freed = descent.freed + FreedBy(node)]
    /\ last' = "unwind"
    /\ UNCHANGED <<phase, tileset, ctx, heap, released, builds, calls, call,
                   prev, before, vecs, report>>

\* Lines 257-258: apply_tile on the root node has returned.
Finish ==
    /\ phase = "descending"
    /\ descent.stack = << <<>> >>
    /\ phase' = IF ctx.oob THEN "corrupt" ELSE "live"
    /\ call' = [made |-> TRUE, density |-> descent.density,
                vp |-> descent.vp, npts |-> ctx.npoints,
                ret |-> ctx.points_block, pts |-> Written(ctx),
                grids |-> builds]
    /\ prev' = call
    /\ descent' = [descent EXCEPT !.stack = <<>>]
    /\ last' = "generate"
    /\ UNCHANGED <<tileset, ctx, heap, released, builds, calls, before, vecs,
                   report>>

\* par_bluenoise_sort_by_rank on the array and count generate returned.
SortByRank ==
    /\ phase = "live"
    /\ last = "generate"
    /\ call.npts <= MaxSortLen
    /\ \E p \in QsortOrders(ctx.points, call.npts) :
           ctx' = [ctx EXCEPT !.points =
                       par_bluenoise_sort_by_rank(ctx.points, call.npts, p)]
    /\ before' = SubSeq(ctx.points, 1, call.npts)
    /\ last' = "sort_by_rank"
    /\ UNCHANGED <<phase, tileset, heap, released, builds, calls, call, prev,
                   vecs, report, descent>>

\* The arguments par_bluenoise_free passes to free, in order; free(0) does
\* nothing and is left out.
RECURSIVE TileFrees(_, _)
TileFrees(c, t) ==
    IF t > c.ntiles
    THEN <<>>
    ELSE [v \in 1..c.nsubdivs |-> <<"subdiv", t, v>>]
         \o << <<"subdivs", t, 0>>, <<"tile_points", t, 0>>,
               <<"tile_subpts", t, 0>> >>
         \o TileFrees(c, t + 1)

FreeCalls(c) ==
    << Block("points") >>
    \o TileFrees(c, 1)
    \o << Block("tiles") >>
    \o (IF c.density_block = Null THEN <<>> ELSE << c.density_block >>)

Range(f) == {f[i] : i \in DOMAIN f}

\* par_bluenoise_free
Free ==
    /\ phase = "live"
    /\ phase' = "freed"
    /\ released' = FreeCalls(ctx)
    /\ heap' = heap \ Range(FreeCalls(ctx))
    /\ last' = "free"
    /\ UNCHANGED <<tileset, ctx, builds, calls, call, prev, before, vecs,
                   report, descent>>

\* ------------------------------------------------------------ specification
NoCtx == [npoints |-> 0]

\* The life cycle of a context: create, the density builders, generate,
\* sort_by_rank and free in any order the API allows, on two tilesets and a
\* few generate arguments.
LifeTileSets == {TileSet(2, 2, 1, 1), TileSet(1, 1, MaxPts, 0)}

LifeViewports == {<<-Half, -Half, Half, Half>>, <<0, 0, 1, 1>>}

Init ==
    /\ phase = "none"
    /\ tileset \in LifeTileSets
    /\ ctx = NoCtx
    /\ heap = {}
    /\ released = <<>>
    /\ builds = 0
    /\ calls = 0
    /\ last = "none"
    /\ call = NoCall
    /\ prev = NoCall
    /\ before = <<>>
    /\ vecs = <<>>
    /\ report = NoReport
    /\ descent = NoDescent

Next ==
    \/ Create(tileset, Capacity)
    \/ \E img \in Images : DensityFromGray(img)
    \/ \E img \in Images \cup WideImages : \E invert \in BOOLEAN :
           DensityFromColor(img, 0, invert)
    \/ \E density \in {1, MaxDensity} : \E vp \in LifeViewports :
           Generate(density, vp)
    \/ SortByRank
    \/ Free

Spec == Init /\ [][Next]_vars

\* ------------------------------------------------ generate on any context
\* The density grids the builders make of Images.
Grids ==
    { [img |-> img, grid |-> GrayGrid(img)] : img \in Images }
    \cup { [img |-> img, grid |-> ColorGrid(img, 0, invert)] :
             img \in Images, invert \in BOOLEAN }

\* A context after create on one of the tilesets tss, or after create and a
\* density builder that made one of the grids gs.
Contexts(tss, gs) ==
    /\ phase = "live"
    /\ tileset \in tss
    /\ \/ /\ ctx = CreateCtx(tileset, Capacity)
          /\ heap = CreateBlocks(tileset)
          /\ builds = 0
       \/ /\ \E g \in gs :
                 ctx = NewGrid(CreateCtx(tileset, Capacity), g.img, g.grid,
                               <<"density", 0, 0>>)
          /\ heap = CreateBlocks(tileset) \cup {<<"density", 0, 0>>}
          /\ builds = 1

\* The first generate call of a context, for every tileset of TileSets and
\* every grid of Grids, and sort_by_rank on what it returned.
InitGen ==
    /\ Contexts(TileSets, Grids)
    /\ released = <<>>
    /\ calls = 0
    /\ last = "none"
    /\ call = NoCall
    /\ prev = NoCall
    /\ before = <<>>
    /\ vecs = <<>>
    /\ report = NoReport
    /\ descent = NoDescent

NextGen ==
    \/ /\ calls = 0
       /\ \E density \in Densities : \E vp \in Viewports :
              Generate(density, vp)
    \/ SortByRank

SpecGen == InitGen /\ [][NextGen]_vars

\* ------------------------------------------------- sample_density alone
\* Images of one column and of one row.
Image1x2 == [width |-> 1, height |-> 2, bpp |-> 1, pixels |-> <<0, 255>>]

Image2x1 == [width |-> 2, height |-> 1, bpp |-> 1, pixels |-> <<255, 0>>]

ThinImages == {Image1x2, Image2x1}

\* What a read of density[] outside the block may return.
StrayCells == {0, CellScale}

\* One call sample_density(ctx, x, y), lines 135-155.  report keeps the
\* indices it computed and the value it returned; a read outside the block
\* of width * height cells returns any value.
Sample(x, y) ==
    /\ phase = "live"
    /\ \/ /\ ctx.density = Null
          /\ report' = [outcome |-> "sampled", attached |-> FALSE,
                        x |-> x, y |-> y, ix |-> 0, iy |-> 0,
                        value |-> sample_density(ctx, x, y)]
       \/ /\ ctx.density # Null
          /\ \E c \in {SampleIndex(ctx, x, y)} :
                 \E v \in IF c.iy * ctx.density_width + c.ix + 1
                              \in DOMAIN ctx.density
                           THEN {sample_density(ctx, x, y)}
                           ELSE StrayCells :
                     report' = [outcome |-> "sampled", attached |-> TRUE,
                                x |-> x, y |-> y, ix |-> c.ix, iy |-> c.iy,
                                value |-> v]
    /\ last' = "sample_density"
    /\ UNCHANGED <<phase, tileset, ctx, heap, released, builds, calls, call,
                   prev, before, vecs, descent>>

\* The context of a tileset of two subtiles per axis, with no grid or with
\* grids built from Images and ThinImages, sampled at every point of the
\* unit square whose coordinates are multiples of 1 / Unit(2).  A lookup
\* changes nothing in the context: each is made on a context as the
\* builders left it.
SampleTileSets == {TileSet(2, 1, 1, 1)}

InitSample ==
    /\ Contexts(SampleTileSets, {})
    /\ released = <<>>
    /\ calls = 0
    /\ last = "none"
    /\ call = NoCall
    /\ prev = NoCall
    /\ before = <<>>
    /\ vecs = <<>>
    /\ report = NoReport
    /\ descent = NoDescent

NextSample ==
    \/ \E img \in Images \cup ThinImages : DensityFromGray(img)
    \/ /\ last # "sample_density"
       /\ \E x \in 0..Unit(ctx.nsubtiles) :
              \E y \in 0..Unit(ctx.nsubtiles) : Sample(x, y)

SpecSample == InitSample /\ [][NextSample]_vars

\* ------------------------------------------- generate on buffers of any size
\* The first generate call of a context created with any maxpts of
\* 1..Capacity (line 273-274), for every tileset of TileSets, with no grid
\* or one of Grids, and sort_by_rank on what it returned.
InitSized ==
    /\ phase = "live"
    /\ tileset \in TileSets
    /\ \E maxpts \in 1..Capacity :
           \/ /\ ctx = CreateCtx(tileset, maxpts)
              /\ heap = CreateBlocks(tileset)
              /\ builds = 0
           \/ /\ \E g \in Grids :
                     ctx = NewGrid(CreateCtx(tileset, maxpts), g.img, g.grid,
                                   <<"density", 0, 0>>)
              /\ heap = CreateBlocks(tileset) \cup {<<"density", 0, 0>>}
              /\ builds = 1
    /\ released = <<>>
    /\ calls = 0
    /\ last = "none"
    /\ call = NoCall
    /\ prev = NoCall
    /\ before = <<>>
    /\ vecs = <<>>
    /\ report = NoReport
    /\ descent = NoDescent

NextSized ==
    \/ /\ calls = 0
       /\ \E density \in Densities : \E vp \in Viewports :
              Generate(density, vp)
    \/ SortByRank

SpecSized == InitSized /\ [][NextSized]_vars

\* -------------------------------------- generate calls one after the other
\* Up to MaxCalls generate calls on one context, with sort_by_rank calls
\* between them, on four tilesets, with no grid or one of two grids.
PairTileSets ==
    { TileSet(2, 2, 1, MaxPts), TileSet(2, 1, MaxPts, 1),
      TileSet(1, 2, 1, 1), TileSet(1, 1, MaxPts, 0) }

PairGrids ==
    { [img |-> Image3x2, grid |-> GrayGrid(Image3x2)],
      [img |-> Image3x3, grid |-> ColorGrid(Image3x3, 0, TRUE)] }

PairViewports ==
    { <<-Half, -Half, Half, Half>>,
      <<-Half, -Half, 0, 0>>,
      <<0, 0, 1, 1>>,
      <<0, -Half, 0, Half>> }

InitPair ==
    /\ Contexts(PairTileSets, PairGrids)
    /\ released = <<>>
    /\ calls = 0
    /\ last = "none"
    /\ call = NoCall
    /\ prev = NoCall
    /\ before = <<>>
    /\ vecs = <<>>
    /\ report = NoReport
    /\ descent = NoDescent

NextPair ==
    \/ \E density \in Densities : \E vp \in PairViewports :
           Generate(density, vp)
    \/ SortByRank

SpecPair == InitPair /\ [][NextPair]_vars

\* ------------------------------------------------- create from a file
\* The files hold the tilesets of one tile and one subtile per axis, with
\* at most one point and one subPoint; what malloc left in the buffer is
\* any sequence of words 0 and 1.
LoadTileSets == { TileSet(1, 1, a, b) : a \in 0..1, b \in 0..1 }

InitLoad ==
    /\ phase = "none"
    /\ tileset \in LoadTileSets
    /\ ctx = NoCtx
    /\ heap = {}
    /\ released = <<>>
    /\ builds = 0
    /\ calls = 0
    /\ last = "none"
    /\ call = NoCall
    /\ prev = NoCall
    /\ before = <<>>
    /\ vecs = <<>>
    /\ report = NoReport
    /\ descent = NoDescent

NextLoad ==
    \/ Create(tileset, Capacity)
    \/ \E opens \in BOOLEAN : \E delivered \in 0..Len(Encode(tileset)) :
           \E rest \in [1..(Len(Encode(tileset)) - delivered) -> {0, 1}] :
               CreateFromFile(Encode(tileset), opens, delivered, rest,
                              Capacity)
    \/ Free

SpecLoad == InitLoad /\ [][NextLoad]_vars

\* ---------------------------------------- the first call, node by node
DescentTileSets == TileSets

InitDescent ==
    /\ Contexts(DescentTileSets, Grids)
    /\ released = <<>>
    /\ calls = 0
    /\ last = "none"
    /\ call = NoCall
    /\ prev = NoCall
    /\ before = <<>>
    /\ vecs = <<>>
    /\ report = NoReport
    /\ descent = NoDescent

Step == ApplyTile \/ Unwind \/ Finish

NextDescent ==
    \/ \E density \in Densities : \E vp \in Viewports : Begin(density, vp)
    \/ Step
    \/ SortByRank

SpecDescent == InitDescent /\ [][NextDescent]_vars

\* --------------------------------------------- a call carried to its end
\* The first call, node by node, on the tilesets of TileSets with two
\* subtiles per axis and on two tilesets with three.  generate runs on one
\* thread and nothing suspends it: a step that can be taken is taken.
TraversalTileSets ==
    { ts \in TileSets : ts.nsubtiles >= 2 }
    \cup { TileSet(3, 2, 1, 1), TileSet(3, 1, MaxPts, 1) }

InitTraversal ==
    /\ Contexts(TraversalTileSets, Grids)
    /\ released = <<>>
    /\ calls = 0
    /\ last = "none"
    /\ call = NoCall
    /\ prev = NoCall
    /\ before = <<>>
    /\ vecs = <<>>
    /\ report = NoReport
    /\ descent = NoDescent

NextTraversal ==
    \/ \E density \in Densities : \E vp \in Viewports : Begin(density, vp)
    \/ Step

SpecTraversal ==
    InitTraversal /\ [][NextTraversal]_vars /\ WF_vars(Step)

\* ----------------------------------------- sort_by_rank on any caller array
SortEntries ==
    { [x |-> x, y |-> 0, rank |-> [n |-> r, d |-> 1]] :
        x \in 0..1, r \in 0..MaxRank }

SortInputs == UNION { [1..n -> SortEntries] : n \in 0..MaxSortLen }

InitSort ==
    /\ phase = "sort"
    /\ vecs \in SortInputs
    /\ before = <<>>
    /\ tileset = TileSet(1, 1, 0, 0)
    /\ ctx = NoCtx
    /\ heap = {}
    /\ released = <<>>
    /\ builds = 0
    /\ calls = 0
    /\ last = "none"
    /\ call = NoCall
    /\ prev = NoCall
    /\ report = NoReport
    /\ descent = NoDescent

SortArray ==
    /\ phase = "sort"
    /\ phase' = "sorted"
    /\ \E p \in QsortOrders(vecs, Len(vecs)) :
           vecs' = par_bluenoise_sort_by_rank(vecs, Len(vecs), p)
    /\ before' = vecs
    /\ last' = "sort_by_rank"
    /\ UNCHANGED <<tileset, ctx, heap, released, builds, calls, call, prev,
                   report, descent>>

NextSort == SortArray

SpecSort == InitSort /\ [][NextSort]_vars

\* ------------------------------------------- the end-to-end scenario family
\* One tile, one subtile per axis, one subdivision variant, up to
\* MaxScenario points of the unit square (its corners and interior), no
\* subPoints, no density field; generate is called with density = the
\* number of points, on the whole square.
ScenarioPoints == {<<0, 0>>, <<1, K - 1>>, <<Half, Half>>, <<K, K>>}

ScenarioTileSets ==
    { [nsubtiles |-> 1, nsubdivs |-> 1,
       tiles |-> << Tile(pts, <<>>, << <<0>> >>) >>] :
        pts \in UNION { [1..n -> ScenarioPoints] : n \in 0..MaxScenario } }

WholeSquare == <<-Half, -Half, Half, Half>>

InitScenario ==
    /\ phase = "live"
    /\ tileset \in ScenarioTileSets
    /\ ctx = CreateCtx(tileset, Capacity)
    /\ heap = CreateBlocks(tileset)
    /\ builds = 0
    /\ released = <<>>
    /\ calls = 0
    /\ last = "none"
    /\ call = NoCall
    /\ prev = NoCall
    /\ before = <<>>
    /\ vecs = <<>>
    /\ report = NoReport
    /\ descent = NoDescent

NextScenario ==
    \/ Generate(ctx.tiles[1].npoints, WholeSquare)
    \/ SortByRank

SpecScenario == InitScenario /\ [][NextScenario]_vars

\* ------------------------------------------------------------------- claims
\* generate has returned to the caller, and nothing was called since.
Returned == phase = "live" /\ last = "generate"

\* The unit length, and 0.5, in the integers of the context's tileset.
Side == Unit(ctx.nsubtiles)
HalfSide == Side \div 2

\* A viewport edge v (in grid steps) translated by +0.5 and clamped to [0, 1].
ClampedEdge(v) == clamp((v + Half) * (Side \div K), 0, Side)

\* Entry i was written by a node of level >= 1 (rank >= 2), by the root
\* pass (rank < 1).
FromDescent(i) == ctx.points[i].rank.n >= 2 * ctx.points[i].rank.d
FromRootPass(i) == ctx.points[i].rank.n < ctx.points[i].rank.d

\* C1 (containment): every point generate returns, translated by +0.5, lies
\* between the clamped left and right and between the clamped bottom and
\* top of the requested viewport, so x and y lie in [-0.5, +0.5]; for the
\* points of the root pass and of every level of the descent.
C1_Containment ==
    Returned =>
        \A i \in 1..call.npts :
            LET p == ctx.points[i]
            IN  /\ ClampedEdge(call.vp[1]) <= p.x + HalfSide
                /\ p.x + HalfSide <= ClampedEdge(call.vp[3])
                /\ ClampedEdge(call.vp[2]) <= p.y + HalfSide
                /\ p.y + HalfSide <= ClampedEdge(call.vp[4])
                /\ -HalfSide <= p.x /\ p.x <= HalfSide
                /\ -HalfSide <= p.y /\ p.y <= HalfSide

\* A call on a viewport smaller than the square returned a point of the
\* root pass and a point of a level >= 1.
C1_Witness ==
    /\ Returned
    /\ call.vp[3] - call.vp[1] < K
    /\ call.vp[1] < call.vp[3]
    /\ \E i \in 1..call.npts : FromRootPass(i)
    /\ \E i \in 1..call.npts : FromDescent(i)

\* The call just made, repeated on a context that has made no call: the
\* same tileset, capacity and density grid, an untouched buffer.
FreshRun ==
    par_bluenoise_generate(
        [CreateCtx(tileset, ctx.maxpoints) EXCEPT
            !.density = ctx.density,
            !.density_width = ctx.density_width,
            !.density_height = ctx.density_height,
            !.density_block = ctx.density_block],
        call.density, call.vp[1], call.vp[2], call.vp[3], call.vp[4])

SameArguments(c1, c2) ==
    c1.made /\ c2.made /\ c1.grids = c2.grids
    /\ c1.density = c2.density /\ c1.vp = c2.vp

\* C2 (determinism): a generate call with the arguments of the call before
\* it, the density field unchanged, returns the same count and the same
\* (x, y, rank) triples index by index; and what a call returns is what the
\* same call returns on a context that has made no call before.
C2_Determinism ==
    Returned =>
        /\ SameArguments(prev, call) =>
               call.npts = prev.npts /\ call.pts = prev.pts
        /\ \A f \in {FreshRun} :
               call.npts = f.npoints
               /\ call.pts = SubSeq(f.points, 1, f.npoints)

\* The second of two calls with the same arguments returned two points or
\* more.
C2_Witness ==
    Returned /\ SameArguments(prev, call) /\ call.npts >= 2

\* What the next generate call on this context returns for density d and
\* the viewport of the call just made.
NextCallAt(d) ==
    par_bluenoise_generate(ctx, d, call.vp[1], call.vp[2], call.vp[3],
                           call.vp[4])

\* C3 (monotonicity in density): a generate call on the viewport of the
\* call just made, with a density that is not smaller, returns at least as
\* many points, and with a density that is not larger, at most as many (for
\* calls that return).
C3_Monotone ==
    Returned =>
        \A d \in Densities :
            ~(d = 0 /\ call.vp[2] = call.vp[4]) =>
                \A c \in {NextCallAt(d)} :
                    (~c.deep /\ ~c.oob) =>
                        /\ call.density <= d => call.npts <= c.npoints
                        /\ d <= call.density => c.npoints <= call.npts

\* A call returned points, and a call with a larger density on the same
\* viewport returns more.
C3_Witness ==
    /\ Returned
    /\ call.npts > 0
    /\ \E d \in Densities :
           /\ d > call.density
           /\ \E c \in {NextCallAt(d)} :
                  ~c.deep /\ ~c.oob /\ c.npoints > call.npts

\* C4 (rank canonicalization): after sort_by_rank on n entries, the rank at
\* array position i is i, for every i in [0, n).
C4_RankCanonical ==
    phase = "sorted" =>
        /\ Len(vecs) = Len(before)
        /\ \A i \in 1..Len(vecs) : vecs[i].rank = [n |-> i - 1, d |-> 1]

\* A longest list, given with equal ranks in it and out of order, was
\* sorted.
C4_Witness ==
    /\ phase = "sorted"
    /\ Len(before) = MaxSortLen
    /\ \E i \in 1..(MaxSortLen - 1) : cmp(before[i], before[i + 1]) > 0
    /\ \E i \in 1..(MaxSortLen - 1) : cmp(before[i], before[i + 1]) = 0

\* C5 (order by original rank, no point lost): after sort_by_rank the
\* (x, y) pairs are the given ones rearranged, in an arrangement along which
\* the given ranks never decrease.
C5_SortedPermutation ==
    phase = "sorted" =>
        /\ Len(vecs) = Len(before)
        /\ \E p \in Permutations(1..Len(before)) :
               /\ \A i \in 1..Len(before) :
                      vecs[i].x = before[p[i]].x /\ vecs[i].y = before[p[i]].y
               /\ \A i \in 1..Len(before) : \A j \in 1..Len(before) :
                      i < j =>
                          before[p[i]].rank.n * before[p[j]].rank.d
                              <= before[p[j]].rank.n * before[p[i]].rank.d

\* A list whose first entry has the largest rank, with two points of equal
\* rank and different x in it, was sorted.
C5_Witness ==
    /\ phase = "sorted"
    /\ Len(before) >= 3
    /\ \A i \in 2..Len(before) : cmp(before[1], before[i]) > 0
    /\ \E i \in 1..Len(before) : \E j \in 1..Len(before) :
           cmp(before[i], before[j]) = 0 /\ before[i].x # before[j].x

\* C6 (the end-to-end scenario): one tile, one subtile per axis, n points,
\* no subPoints, no density field, generate(density = n) on the whole
\* square: exactly n points are returned, point i being points[i] moved by
\* -0.5 with rank i / n (so none comes from the descent), and after
\* sort_by_rank the ranks are 0, 1, ..., n - 1.
C6_Scenario ==
    LET root == ctx.tiles[1]
        n == root.npoints
    IN  (/\ phase = "live"
         /\ last \in {"generate", "sort_by_rank"}
         /\ ctx.ntiles = 1 /\ ctx.nsubtiles = 1 /\ root.nsubpts = 0
         /\ ctx.density = Null
         /\ call.density = n /\ call.vp = WholeSquare) =>
            /\ call.npts = n
            /\ \A i \in 1..n :
                   /\ call.pts[i].x = root.points[i][1] * (Side \div K) - HalfSide
                   /\ call.pts[i].y = root.points[i][2] * (Side \div K) - HalfSide
                   /\ call.pts[i].rank.n * n = (i - 1) * call.pts[i].rank.d
            /\ last = "generate" => SubSeq(ctx.points, 1, n) = call.pts
            /\ last = "sort_by_rank" =>
                   \A i \in 1..n : ctx.points[i].rank = [n |-> i - 1, d |-> 1]

\* The scenario with the most points was generated and sorted.
C6_Witness ==
    /\ phase = "live"
    /\ last = "sort_by_rank"
    /\ ctx.tiles[1].npoints = MaxScenario
    /\ call.npts = MaxScenario
    /\ call.density = MaxScenario

\* Every cell of the grid is 0 or 1.
Binary(grid) == \A k \in DOMAIN grid : grid[k] \in {0, CellScale}

\* C7 (density masking): with a field of cells 0 and 1 attached, generate
\* with a positive density on the whole square returns no point whose
\* sampled cell is 0.
C7_Masking ==
    (/\ Returned
     /\ ctx.density # Null
     /\ Binary(ctx.density)
     /\ call.density > 0
     /\ call.vp = WholeSquare) =>
        \A i \in 1..call.npts :
            sample_density(ctx, ctx.points[i].x + HalfSide,
                           ctx.points[i].y + HalfSide) # 0

\* C8 (degenerate viewport): a generate call with left = right or
\* bottom = top that returns, returns no point.
C8_Degenerate ==
    (Returned /\ (call.vp[1] = call.vp[3] \/ call.vp[2] = call.vp[4])) =>
        call.npts = 0

\* C9 (overwrite, not append): when a generate call returns (the buffer
\* was large enough), the count it returns is the number of points that
\* call wrote, the pointer it returns is the context's buffer, and entry i
\* of the buffer, for i below the count, is the i-th point that call wrote.
C9_Overwrite ==
    Returned =>
        /\ call.npts = ctx.emitted
        /\ call.npts = ctx.npoints
        /\ call.ret = Block("points")
        /\ \A i \in 1..call.npts : ctx.stamps[i] = <<calls, i>>

\* The second call on a context returned points, fewer than the first: the
\* buffer still holds an entry of the first call after them.
C9_Witness ==
    /\ Returned
    /\ calls = 2
    /\ 0 < call.npts /\ call.npts < prev.npts
    /\ ctx.stamps[call.npts + 1][1] = 1

\* C10 (release of all memory): after free, no block allocated for the
\* context is still allocated, and none was freed twice.
C10_AllReleased ==
    phase = "freed" =>
        /\ heap = {}
        /\ \A i \in 1..Len(released) : \A j \in 1..Len(released) :
               released[i] = released[j] => i = j

\* C11 (InvalidArgument): a density_from_color call with more than four
\* bytes per pixel ends by reporting InvalidArgument to its caller, who goes
\* on with the context as it was.
C11_InvalidArgument ==
    (last = "density_from_color" /\ report.bpp > 4) =>
        /\ report.outcome = "InvalidArgument"
        /\ phase = "live"

\* C12 (LoadError): when the tileset file cannot be opened, or fread
\* delivers less than the file's length, create reports LoadError, returns
\* no context, and has parsed no word.
C12_LoadError ==
    (/\ last = "create"
     /\ report.outcome # "none"
     /\ (~report.opened \/ report.delivered < report.length)) =>
        /\ report.outcome = "LoadError"
        /\ phase = "none"
        /\ report.parsed = 0

\* The call in progress, or just returned, in SpecDescent has two subtiles
\* per axis or more, a positive density, and a viewport of nonzero height.
Traversal ==
    /\ descent.trace # <<>>
    /\ ctx.nsubtiles >= 2
    /\ descent.density > 0
    /\ descent.vp[2] # descent.vp[4]

\* mag / S^(2 * level) * density - points.count > subPoints.count, for the
\* tile of a visit (mag is the fraction ctx.mag).
OverThreshold(v) ==
    LET tile == ctx.tiles[v.tile + 1]
    IN  ctx.mag.n * descent.density
            > (tile.npoints + tile.nsubpts)
                * Pow(ctx.nsubtiles, 2 * v.level) * ctx.mag.d

LastVisit == descent.trace[Len(descent.trace)]

NodeVisited ==
    /\ last = "apply_tile"
    /\ descent.density > 0
    /\ ~LastVisit.skipped
    /\ LastVisit.count <= ctx.maxpoints

\* For the visit v: depth * mag.d and mag.n * density, so that
\* threshold = (Num - npoints * Den) / Den and factor = Den / Num.
Den(v) == Pow(ctx.nsubtiles, 2 * v.level) * ctx.mag.d
Num(v) == ctx.mag.n * descent.density

\* Candidate i of the visit v: its place, whether it lies in the clamped
\* viewport, and whether sample >= (i + points.count) * factor there.
PlaceOf(v, i) ==
    LET sub == ctx.tiles[v.tile + 1].subpts[i + 1]
        step == Side \div (K * Pow(ctx.nsubtiles, v.level))
    IN  <<v.x + sub[1] * step, v.y + sub[2] * step>>

Passes(v, i) ==
    LET at == PlaceOf(v, i)
    IN  /\ ctx.left <= at[1] /\ at[1] <= ctx.right
        /\ ctx.bottom <= at[2] /\ at[2] <= ctx.top
        /\ sample_density(ctx, at[1], at[2]) * Num(v)
               >= (i + ctx.tiles[v.tile + 1].npoints) * Den(v) * CellScale

\* The visit v emitted exactly the candidates of the set tested that pass,
\* in the order of their indices, each at its place moved by -0.5 and with
\* rank (level + 1) + i * factor.
EmittedExactly(v, tested) ==
    LET passed == { i \in tested : Passes(v, i) }
    IN  /\ v.count - v.first = Cardinality(passed)
        /\ \A i \in passed :
               LET e == ctx.points[v.first
                                   + Cardinality({ j \in passed : j <= i })]
               IN  /\ e.x = PlaceOf(v, i)[1] - HalfSide
                   /\ e.y = PlaceOf(v, i)[2] - HalfSide
                   /\ e.rank.n * Num(v)
                        = ((v.level + 1) * Num(v) + i * Den(v)) * e.rank.d

\* The indices i with 0 <= i < min(subPoints.count, threshold), and those
\* with 0 <= i and i + 1 <= min(subPoints.count, threshold).
BelowThreshold(v) ==
    { i \in 0..(ctx.tiles[v.tile + 1].nsubpts - 1) :
        i * Den(v) < Num(v) - ctx.tiles[v.tile + 1].npoints * Den(v) }

WholeBelowThreshold(v) ==
    { i \in 0..(ctx.tiles[v.tile + 1].nsubpts - 1) :
        (i + 1) * Den(v) <= Num(v) - ctx.tiles[v.tile + 1].npoints * Den(v) }

\* C15 as claimed (recursive candidate rule): the candidates a visited node
\* tests are those of index i with 0 <= i < min(subPoints.count,
\* threshold), for fractional threshold too; each is emitted if and only
\* if it lies in the clamped viewport and sample >= (i + points.count) *
\* factor, with rank (level + 1) + i * factor.
C15_CandidateRule ==
    NodeVisited => EmittedExactly(LastVisit, BelowThreshold(LastVisit))

\* C15 as amended: the candidates tested are those of index i with
\* 0 <= i and i + 1 <= min(subPoints.count, threshold), the count of tests
\* being that minimum truncated to an integer; the rest as claimed.
C15_CandidateRuleTruncated ==
    NodeVisited => EmittedExactly(LastVisit, WholeBelowThreshold(LastVisit))

\* A node with a threshold that is not a whole number and lies under
\* subPoints.count emitted a point.
C15_Witness ==
    /\ NodeVisited
    /\ LastVisit.count > LastVisit.first
    /\ WholeBelowThreshold(LastVisit) # BelowThreshold(LastVisit)

\* The viewport of the call in SpecDescent is a box: left <= right and
\* bottom <= top (an edge may have length 0).
BoxViewport ==
    /\ descent.trace # <<>>
    /\ descent.vp[1] <= descent.vp[3]
    /\ descent.vp[2] <= descent.vp[4]

\* The side of the footprint of a node of the level of v.
TileSide(v) == Side \div Pow(ctx.nsubtiles, v.level)

\* The footprint of v and the clamped viewport have a point in common.
Intersects(v) ==
    /\ v.x <= ctx.right /\ ctx.left <= v.x + TileSide(v)
    /\ v.y <= ctx.top /\ ctx.bottom <= v.y + TileSide(v)

\* The visit of the node named id, if there is one.
VisitsOf(id) ==
    { i \in 1..Len(descent.trace) : descent.trace[i].id = id }

\* id1 comes before id2 when a parent comes before its children and the
\* children of a node come in the order of their indices.
Precedes(id1, id2) ==
    \/ /\ Len(id1) < Len(id2)
       /\ \A m \in 1..Len(id1) : id1[m] = id2[m]
    \/ \E m \in 1..Len(id1) :
           /\ m <= Len(id2)
           /\ \A n \in 1..(m - 1) : id1[n] = id2[n]
           /\ id1[m] < id2[m]

\* The visit w is that of child k = ty * S + tx of the visit p.
ChildOf(w, p) ==
    LET S == ctx.nsubtiles
        k == w.id[Len(w.id)]
    IN  /\ p.spawned
        /\ w.level = p.level + 1
        /\ w.x = p.x + (k % S) * (TileSide(p) \div S)
        /\ w.y = p.y + (k \div S) * (TileSide(p) \div S)
        /\ w.tile = ctx.tiles[p.tile + 1].subdivs[1][k + 1]

Accepted ==
    par_bluenoise_generate(
        [ctx EXCEPT !.maxpoints = ctx.maxpoints + ctx.emitted],
        call.density, call.vp[1], call.vp[2], call.vp[3], call.vp[4]).npoints

\* C17 (no capacity bound): the count a generate call returns is the number
\* of points it accepted, whatever maxpoints is; when that number exceeds
\* maxpoints the call has written at indices >= maxpoints and returns a
\* count > maxpoints, so count <= maxpoints holds after the call only when
\* the accepted points fit.
C17_NoCapacityBound ==
    (last = "generate" /\ phase \in {"live", "corrupt"}) =>
        /\ call.npts = Accepted
        /\ call.npts = ctx.emitted
        /\ Accepted > ctx.maxpoints =>
               ctx.oob /\ phase = "corrupt" /\ call.npts > ctx.maxpoints
        /\ call.npts <= ctx.maxpoints => ~ctx.oob /\ phase = "live"

\* A generate call accepted more points than the buffer holds.
C17_Witness ==
    /\ last = "generate"
    /\ phase = "corrupt"
    /\ ctx.oob
    /\ call.npts > ctx.maxpoints

\* The points of the unit square the model samples.
UnitSquare == 0..Unit(ctx.nsubtiles)

\* C18 (density lookup stays in the grid): with a grid attached, the
\* indices sample_density computes satisfy 0 <= ix < width and
\* 0 <= iy < height, and every cell of the grid is the result for some
\* point of the unit square; with no grid sample_density returns 1.
C18_LookupInGrid ==
    (last = "sample_density" /\ report.outcome = "sampled") =>
        IF report.attached
        THEN /\ 0 <= report.ix /\ report.ix < ctx.density_width
             /\ 0 <= report.iy /\ report.iy < ctx.density_height
             /\ \A ix \in 0..(ctx.density_width - 1) :
                    \A iy \in 0..(ctx.density_height - 1) :
                        \E x \in UnitSquare : \E y \in UnitSquare :
                            SampleIndex(ctx, x, y) = [ix |-> ix, iy |-> iy]
        ELSE report.value = CellScale

\* The level of the node that emitted the k-th point of the call of
\* SpecDescent, and -1 for a point of the root pass.
Origin(k) ==
    IF k <= descent.trace[1].first
    THEN -1
    ELSE descent.trace[CHOOSE i \in 1..Len(descent.trace) :
                           /\ descent.trace[i].first < k
                           /\ k <= descent.trace[i].count].level

\* The rank rk lies in [band, band + 1).
InBand(rk, band) ==
    /\ rk.d > 0
    /\ band * rk.d <= rk.n
    /\ rk.n < (band + 1) * rk.d

\* The array as generate left it: the buffer when generate has returned,
\* and what sort_by_rank was given when it has returned.
PreSort ==
    IF last = "sort_by_rank" THEN before ELSE SubSeq(ctx.points, 1, call.npts)

\* C19 (rank bands by level): for density > 0 and a viewport of nonzero
\* height, a point of the root pass has rank in [0, 1) and a point emitted
\* by a node of level L has rank in [L + 1, L + 2) when generate returns;
\* after sort_by_rank a point never comes after a point of a deeper level
\* (the root pass counting as the level above level 0), whatever order
\* qsort chose among entries that compare equal.
C19_RankBands ==
    (/\ phase = "live"
     /\ last \in {"generate", "sort_by_rank"}
     /\ descent.trace # <<>>
     /\ descent.density > 0
     /\ descent.vp[2] # descent.vp[4]) =>
        /\ \A k \in 1..call.npts : InBand(PreSort[k].rank, Origin(k) + 1)
        /\ last = "sort_by_rank" =>
               \A p \in QsortOrders(before, call.npts) :
                   SubSeq(ctx.points, 1, call.npts)
                       = par_bluenoise_sort_by_rank(before, call.npts, p)
                   => \A i \in 1..call.npts : \A j \in 1..call.npts :
                          i < j => Origin(p[i]) <= Origin(p[j])

\* sort_by_rank returned on an array that holds a point of the root pass, a
\* point of the root node and a point of a node of a deeper level.
C19_Witness ==
    /\ phase = "live"
    /\ last = "sort_by_rank"
    /\ descent.trace # <<>>
    /\ descent.density > 0
    /\ descent.vp[2] # descent.vp[4]
    /\ \E i \in 1..call.npts : \E j \in 1..call.npts :
           \E k \in 1..call.npts :
               Origin(i) = -1 /\ Origin(j) = 0 /\ Origin(k) > 0

\* The bytes of pixel p of the image of the last density_from_color call,
\* lowest first, with 0 for the bytes a word has beyond them.
PixelBytes(p) ==
    [j \in 1..4 |->
        IF j <= report.bpp THEN report.pixels[(p - 1) * report.bpp + j]
        ELSE 0]

\* C20 (the color-key builder reads only the caller's pixels): for
\* bytesPerPixel in 1..4, density_from_color reads only bytes at offsets in
\* [0, width * height * bytesPerPixel) of the pixel buffer, and the value
\* it compares with backgroundColor for pixel p is made of exactly the
\* bytesPerPixel bytes of pixel p.
C20_ReadsCallerPixels ==
    (/\ last = "density_from_color"
     /\ report.outcome = "returned"
     /\ report.bpp \in 1..4) =>
        /\ report.size
             = ctx.density_width * ctx.density_height * report.bpp
        /\ report.reads \subseteq 0..(report.size - 1)
        /\ \A p \in 1..(ctx.density_width * ctx.density_height) :
               ctx.density[p] =
                   IF (PixelBytes(p) = WordBytes(report.bkgd))
                        = report.invert
                   THEN CellScale ELSE 0

====
